---- MODULE Spec2Model ----
(***************************************************************************)
(* Workspace-group membership engine of spaceone identity:                 *)
(* WorkspaceGroupService (service/workspace_group_service.py) and          *)
(* WorkspaceManager (manager/workspace_manager.py).                        *)
(*                                                                         *)
(* One workspace group G of one domain is modelled, with its persisted     *)
(* users list, the role-binding store of the domain, the user_count of     *)
(* every workspace and the user directory.  Every service handler is one   *)
(* action (the requests run one at a time, each to completion); the        *)
(* request and its outcome stay in `call` until the response is returned.  *)
(***************************************************************************)
EXTENDS Integers, Sequences, FiniteSets, Bags, TLC

VARIABLES
    group_exists,   \* the WorkspaceGroup document G exists
    users,          \* WorkspaceGroup.users: sequence of member entries
    rbs,            \* role-binding store: a bag of role-binding records
    user_count,     \* Workspace.user_count, per workspace
    group_ws,       \* workspaces whose workspace_group_id is G
    user_state,     \* user directory: state per user id ("ABSENT": no record)
    call,           \* the request just handled, until its response is returned
    hist            \* history: an AddUsers of one user and the RemoveUsers after it

vars == <<group_exists, users, rbs, user_count, group_ws, user_state, call, hist>>

(***************************************************************************)
(* Bounds of the model.                                                    *)
(***************************************************************************)
\* longest users list of one AddUsers / RemoveUsers request
MaxInput == 2
\* most role-bindings the other services create outside the group
MaxExternal == 1

(***************************************************************************)
(* Identifiers.                                                            *)
(***************************************************************************)
G == "G"
NoGroup == "none"
NoWorkspace == "none"
UserIds == {"u1", "u2"}
RoleIds == {"r1", "r2", "r3", "r9"}
Workspaces == {"W1", "W2"}

\* Role store of the domain: r1, r2 are workspace roles, r3 is a domain
\* role, r9 is no role of the domain.
RoleTypeOf(role_id) ==
    CASE role_id = "r1" -> "WORKSPACE_OWNER"
      [] role_id = "r2" -> "WORKSPACE_MEMBER"
      [] role_id = "r3" -> "DOMAIN_ADMIN"
      [] OTHER -> "NO_ROLE"

(***************************************************************************)
(* Sequence and bag helpers.                                               *)
(***************************************************************************)
Range(s) == {s[i] : i \in 1..Len(s)}

SeqsUpTo(S, n) == UNION {[1..k -> S] : k \in 0..n}

RECURSIVE FilterSeq_inverted(_, _)
\* FilterSeq with the test inverted: [x for x in s if x.user_id in ids]
FilterSeq_inverted(s, ids) ==
    IF s = <<>> THEN <<>>
    ELSE IF Head(s).user_id \notin ids THEN FilterSeq_inverted(Tail(s), ids)
         ELSE <<Head(s)>> \o FilterSeq_inverted(Tail(s), ids)

RECURSIVE FilterSeq(_, _)
\* [x for x in s if x.user_id not in ids]
FilterSeq(s, ids) ==
    IF s = <<>> THEN <<>>
    ELSE IF Head(s).user_id \in ids THEN FilterSeq(Tail(s), ids)
         ELSE <<Head(s)>> \o FilterSeq(Tail(s), ids)

RECURSIVE SumOver(_, _)
SumOver(b, S) ==
    IF S = {} THEN 0
    ELSE LET x == CHOOSE y \in S : TRUE IN b[x] + SumOver(b, S \ {x})

\* number of role-bindings of the store among the matched rows
NumRb(store, matched) == SumOver(store, matched \cap DOMAIN store)

(***************************************************************************)
(* Role-binding store (RoleBindingManager / RoleBindingService).           *)
(***************************************************************************)
RoleBinding(user_id, role_id, role_type, workspace_id, workspace_group_id) ==
    [user_id |-> user_id, role_id |-> role_id, role_type |-> role_type,
     workspace_id |-> workspace_id, workspace_group_id |-> workspace_group_id]

\* rb_svc.create_role_binding: one more row
create_role_binding(store, rb) == store (+) SetToBag({rb})

\* delete_role_binding_by_vo for every row of a filter_role_bindings result
delete_role_bindings(store, matched) ==
    [rb \in DOMAIN store \ matched |-> store[rb]]

\* stat_role_bindings(distinct user_id, workspace_id = w, domain_id)
stat_role_bindings(store, w) ==
    {rb.user_id : rb \in {x \in DOMAIN store : x.workspace_id = w}}

(***************************************************************************)
(* Requests.                                                               *)
(***************************************************************************)
\* Python's None, as the dict a read handler builds its response from
None == [none |-> TRUE, users |-> <<>>]

UserInfo(user_id, role_id) == [user_id |-> user_id, role_id |-> role_id]

AddInputs == SeqsUpTo({UserInfo(u, r) : u \in UserIds, r \in {"r1", "r2", "r3"}}, MaxInput)

RemoveInputs == SeqsUpTo(UserIds, MaxInput) \ {<<>>}

\* A handled request: the operation and its parameters, the error it raised
\* ("OK": none) with its reason, the workspaces in which it created and
\* deleted role-bindings, the workspaces whose user_count it wrote, the
\* group dict (users with name and state joined in) that AddUsers, GetGroup
\* and ListGroups build their response from, and the stores as they were
\* when the request arrived.
Call(op, input, workspace_id, out) ==
    [op |-> op, input |-> input, workspace_id |-> workspace_id,
     err |-> out.err, reason |-> out.reason,
     created |-> out.created, deleted |-> out.deleted, written |-> out.written,
     response |-> out.response,
     pre |-> [users |-> users, rbs |-> rbs, user_count |-> user_count]]

NoCall == [op |-> "none"]

\* History of a round trip: phase "added" right after a successful AddUsers
\* of the single user user_id (pre_users: the users list before it), phase
\* "removed" right after a successful RemoveUsers of that user following it.
Hist(phase, user_id, pre_users) ==
    [phase |-> phase, user_id |-> user_id, pre_users |-> pre_users]

NoHist == Hist("none", "none", <<>>)

\* the workspaces of the rows a filter_role_bindings query returns
WorkspacesOf(store, matched) == {rb.workspace_id : rb \in matched \cap DOMAIN store}

\* the workspaces in which store `after` holds rows that `before` lacks
GrownIn(before, after) ==
    {rb.workspace_id : rb \in {x \in DOMAIN after :
        after[x] > (IF x \in DOMAIN before THEN before[x] ELSE 0)}}

(***************************************************************************)
(* Deduplication (WorkspaceGroupManager).                                  *)
(***************************************************************************)
MemberIds(member_list) == {member_list[i].user_id : i \in 1..Len(member_list)}

\* get_unique_user_ids: the ids of the group's persisted members and the
\* ids the request names, each without repetition.
get_unique_user_ids(request_ids, member_list) ==
    [old_user_ids |-> MemberIds(member_list), new_user_ids |-> Range(request_ids)]

\* passes (TRUE) when no requested id is a member already
check_new_users_already_in_workspace_group(old_user_ids, new_user_ids) ==
    old_user_ids \cap new_user_ids = {}

\* passes (TRUE) when every requested id is a member
check_user_ids_exist_in_workspace_group(old_user_ids, user_ids) ==
    user_ids \subseteq old_user_ids

(***************************************************************************)
(* Add users.                                                              *)
(***************************************************************************)
\* user_mgr.filter_users(user_id = ids, domain_id)
filter_users(ids) == {u \in UserIds : u \in ids /\ user_state[u] # "ABSENT"}

\* User.name of the directory
NameOf(user_id) == IF user_id = "u1" THEN "name1" ELSE "name2"

\* create_user_info_map over user_mgr.filter_users(user_id = ids, domain_id)
create_user_info_map(ids) ==
    [u \in filter_users(ids) |-> [name |-> NameOf(u), state |-> user_state[u]]]

\* update_user_info: the member entry with user_name and state joined in,
\* both "" when the map lacks the user
update_user_info(user, user_info_dict) ==
    [user_id   |-> user.user_id,
     role_id   |-> user.role_id,
     role_type |-> user.role_type,
     user_name |-> IF user.user_id \in DOMAIN user_info_dict
                   THEN user_info_dict[user.user_id].name ELSE "",
     state     |-> IF user.user_id \in DOMAIN user_info_dict
                   THEN user_info_dict[user.user_id].state ELSE ""]

\* add_user_name_and_state_to_users: the group dict with the joined users;
\* the function falls off its end (None) when the group has no users
add_user_name_and_state_to_users(workspace_group_user_ids, member_list) ==
    IF member_list # <<>>
    THEN [none  |-> FALSE,
          users |-> [i \in 1..Len(member_list) |->
                        update_user_info(member_list[i],
                            create_user_info_map(workspace_group_user_ids))]]
    ELSE None

\* passes (TRUE) when the directory holds every new user
check_new_users_exist_in_domain(new_users) ==
    Cardinality(filter_users(new_users)) = Cardinality(new_users)

\* get_role_map without the role_type filter of filter_roles
get_role_map_any_role_type(new_users_info_list) ==
    \A i \in 1..Len(new_users_info_list) :
        RoleTypeOf(new_users_info_list[i].role_id) # "NO_ROLE"

\* passes (TRUE) when every requested role_id is a WORKSPACE_OWNER or
\* WORKSPACE_MEMBER role of the domain; the map itself is RoleTypeOf.
get_role_map(new_users_info_list) ==
    \A i \in 1..Len(new_users_info_list) :
        RoleTypeOf(new_users_info_list[i].role_id) \in {"WORKSPACE_OWNER", "WORKSPACE_MEMBER"}

\* the orders in which filter_workspaces may list the group's workspaces
get_workspace_ids == {s \in [1..Cardinality(group_ws) -> group_ws] : Range(s) = group_ws}

delete_workspace_users_role_binding(store, new_users, workspace_ids) ==
    delete_role_bindings(store,
        {rb \in DOMAIN store : rb.user_id \in new_users /\ rb.workspace_id \in workspace_ids})

\* add_user without the test on unique_user_ids
add_user_no_dedup(acc, user_info, workspace_id) ==
    LET user_data == [user_id |-> user_info.user_id,
                      role_id |-> user_info.role_id,
                      role_type |-> RoleTypeOf(user_info.role_id)]
    IN  [list   |-> Append(acc.list, user_data),
         unique |-> acc.unique \cup {user_data.user_id},
         store  |-> IF workspace_id # NoWorkspace
                    THEN create_role_binding(acc.store,
                             RoleBinding(user_data.user_id, user_data.role_id,
                                         user_data.role_type, workspace_id, G))
                    ELSE acc.store]

\* The closure add_user: acc holds workspace_group_new_users_info_list
\* (list), unique_user_ids (unique) and the store.
add_user(acc, user_info, workspace_id) ==
    IF user_info.user_id \in acc.unique THEN acc
    ELSE LET role_type == RoleTypeOf(user_info.role_id)
             user_data == [user_id |-> user_info.user_id,
                           role_id |-> user_info.role_id,
                           role_type |-> role_type]
         IN  [list   |-> Append(acc.list, user_data),
              unique |-> acc.unique \cup {user_data.user_id},
              store  |-> IF workspace_id # NoWorkspace
                         THEN create_role_binding(acc.store,
                                  RoleBinding(user_data.user_id, user_data.role_id,
                                              user_data.role_type, workspace_id, G))
                         ELSE acc.store]

RECURSIVE add_each_user(_, _, _)
\* for new_user_info in new_users_info_list: add_user(new_user_info, workspace_id)
add_each_user(acc, infos, workspace_id) ==
    IF infos = <<>> THEN acc
    ELSE add_each_user(add_user(acc, Head(infos), workspace_id), Tail(infos), workspace_id)

RECURSIVE add_each_workspace(_, _, _)
\* for workspace_id in workspace_ids: for new_user_info in ...: add_user(...)
add_each_workspace(acc, infos, workspace_ids) ==
    IF workspace_ids = <<>> THEN acc
    ELSE add_each_workspace(add_each_user(acc, infos, Head(workspace_ids)),
                            infos, Tail(workspace_ids))

\* add_users_to_workspace_group that binds the users in a workspace of the
\* domain when the group has none
add_users_to_workspace_group_binds_unattached(new_users_info_list, workspace_ids, store) ==
    LET acc0 == [list |-> <<>>, unique |-> {}, store |-> store]
    IN  IF workspace_ids # <<>>
        THEN add_each_workspace(acc0, new_users_info_list, workspace_ids)
        ELSE add_each_user(acc0, new_users_info_list, CHOOSE w \in Workspaces : TRUE)

add_users_to_workspace_group(new_users_info_list, workspace_ids, store) ==
    LET acc0 == [list |-> <<>>, unique |-> {}, store |-> store]
    IN  IF workspace_ids # <<>>
        THEN add_each_workspace(acc0, new_users_info_list, workspace_ids)
        ELSE add_each_user(acc0, new_users_info_list, NoWorkspace)

get_users_info_list(new_users_info_list, workspace_ids, member_list, store) ==
    LET added == add_users_to_workspace_group(new_users_info_list, workspace_ids, store)
    IN  [users |-> member_list \o added.list, store |-> added.store]

\* The outcome of a handler: the error ("OK": none) and its reason, the
\* users list, the store and the counts after it, and where it created and
\* deleted role-bindings and wrote a user_count.
Outcome(err, reason, member_list, store, counts, created, deleted, written) ==
    [err |-> err, reason |-> reason, users |-> member_list, store |-> store,
     counts |-> counts, created |-> created, deleted |-> deleted, written |-> written,
     response |-> None]

\* an error raised before anything was changed
Raise(err, reason) == Outcome(err, reason, users, rbs, user_count, {}, {}, {})

\* process_add_users without check_new_users_already_in_workspace_group
process_add_users_unchecked(new_users_info_list, workspace_ids) ==
    LET ids == get_unique_user_ids([i \in 1..Len(new_users_info_list) |->
                                       new_users_info_list[i].user_id], users)
    IN  IF ~group_exists THEN Raise("NotFound", "workspace_group_id")
        ELSE IF ~check_new_users_exist_in_domain(ids.new_user_ids)
        THEN Raise("NotFound", "user_id")
        ELSE IF ~get_role_map(new_users_info_list)
        THEN Raise("InvalidParameter", "role_id is invalid")
        ELSE LET cleared == IF workspace_ids # <<>>
                            THEN delete_workspace_users_role_binding(
                                     rbs, ids.new_user_ids, Range(workspace_ids))
                            ELSE rbs
                 merged  == get_users_info_list(new_users_info_list, workspace_ids,
                                                users, cleared)
                 workspace_group_user_info ==
                     add_user_name_and_state_to_users(
                         ids.old_user_ids \cup ids.new_user_ids, merged.users)
                 err     == IF workspace_group_user_info.none THEN "TypeError" ELSE "OK"
             IN  [Outcome(err, IF err = "OK" THEN "" ELSE "response",
                          merged.users, merged.store, user_count,
                          GrownIn(cleared, merged.store),
                          WorkspacesOf(rbs, {rb \in DOMAIN rbs : rb \notin DOMAIN cleared}),
                          {})
                     EXCEPT !.response = workspace_group_user_info]

\* process_add_users that creates the new role-bindings first and deletes
\* the role-bindings of the new users in the group's workspaces after
process_add_users_create_first(new_users_info_list, workspace_ids) ==
    LET ids == get_unique_user_ids([i \in 1..Len(new_users_info_list) |->
                                       new_users_info_list[i].user_id], users)
    IN  IF ~group_exists THEN Raise("NotFound", "workspace_group_id")
        ELSE IF ~check_new_users_already_in_workspace_group(ids.old_user_ids, ids.new_user_ids)
        THEN Raise("InvalidParameter", "already in workspace group")
        ELSE IF ~check_new_users_exist_in_domain(ids.new_user_ids)
        THEN Raise("NotFound", "user_id")
        ELSE IF ~get_role_map(new_users_info_list)
        THEN Raise("InvalidParameter", "role_id is invalid")
        ELSE LET added   == get_users_info_list(new_users_info_list, workspace_ids,
                                                users, rbs)
                 cleared == IF workspace_ids # <<>>
                            THEN delete_workspace_users_role_binding(
                                     added.store, ids.new_user_ids, Range(workspace_ids))
                            ELSE added.store
                 merged  == [users |-> added.users, store |-> cleared]
                 workspace_group_user_info ==
                     add_user_name_and_state_to_users(
                         ids.old_user_ids \cup ids.new_user_ids, merged.users)
                 \* WorkspaceGroupResponse(**None) cannot be built
                 err     == IF workspace_group_user_info.none THEN "TypeError" ELSE "OK"
             IN  [Outcome(err, IF err = "OK" THEN "" ELSE "response",
                          merged.users, merged.store, user_count,
                          GrownIn(rbs, added.store),
                          WorkspacesOf(added.store,
                              {rb \in DOMAIN added.store : rb \notin DOMAIN cleared}),
                          {})
                     EXCEPT !.response = workspace_group_user_info]

\* process_add_users, for one listing order of the group's workspaces
process_add_users(new_users_info_list, workspace_ids) ==
    LET ids == get_unique_user_ids([i \in 1..Len(new_users_info_list) |->
                                       new_users_info_list[i].user_id], users)
    IN  IF ~group_exists THEN Raise("NotFound", "workspace_group_id")
        ELSE IF ~check_new_users_already_in_workspace_group(ids.old_user_ids, ids.new_user_ids)
        THEN Raise("InvalidParameter", "already in workspace group")
        ELSE IF ~check_new_users_exist_in_domain(ids.new_user_ids)
        THEN Raise("NotFound", "user_id")
        ELSE IF ~get_role_map(new_users_info_list)
        THEN Raise("InvalidParameter", "role_id is invalid")
        ELSE LET cleared == IF workspace_ids # <<>>
                            THEN delete_workspace_users_role_binding(
                                     rbs, ids.new_user_ids, Range(workspace_ids))
                            ELSE rbs
                 merged  == get_users_info_list(new_users_info_list, workspace_ids,
                                                users, cleared)
                 workspace_group_user_info ==
                     add_user_name_and_state_to_users(
                         ids.old_user_ids \cup ids.new_user_ids, merged.users)
                 \* WorkspaceGroupResponse(**None) cannot be built
                 err     == IF workspace_group_user_info.none THEN "TypeError" ELSE "OK"
             IN  [Outcome(err, IF err = "OK" THEN "" ELSE "response",
                          merged.users, merged.store, user_count,
                          GrownIn(cleared, merged.store),
                          WorkspacesOf(rbs, {rb \in DOMAIN rbs : rb \notin DOMAIN cleared}),
                          {})
                     EXCEPT !.response = workspace_group_user_info]

\* add_users that recomputes the user_count of the group's workspaces
add_users_and_recount(input) ==
    /\ call = NoCall
    /\ \E workspace_ids \in get_workspace_ids :
       \E out \in {process_add_users(input, workspace_ids)} :
          /\ users' = out.users
          /\ rbs' = out.store
          /\ user_count' = IF out.err = "OK"
                           THEN [w \in Workspaces |->
                                    IF w \in group_ws
                                    THEN Cardinality(stat_role_bindings(out.store, w))
                                    ELSE user_count[w]]
                           ELSE user_count
          /\ call' = Call("AddUsers", input, NoWorkspace, out)
          /\ hist' = IF out.err = "OK" /\ Len(input) = 1
                     THEN Hist("added", input[1].user_id, users)
                     ELSE NoHist
    /\ UNCHANGED <<group_exists, group_ws, user_state>>

add_users(input) ==
    /\ call = NoCall
    /\ \E workspace_ids \in get_workspace_ids :
       \E out \in {process_add_users(input, workspace_ids)} :
          /\ users' = out.users
          /\ rbs' = out.store
          /\ call' = Call("AddUsers", input, NoWorkspace, out)
          /\ hist' = IF out.err = "OK" /\ Len(input) = 1
                     THEN Hist("added", input[1].user_id, users)
                     ELSE NoHist
    /\ UNCHANGED <<group_exists, user_count, group_ws, user_state>>

(***************************************************************************)
(* Remove users.                                                           *)
(***************************************************************************)
\* WorkspaceManager.update_workspace_by_vo({"user_count": n}, workspace_vo)
update_workspace_by_vo(counts, workspace_id, n) ==
    [counts EXCEPT ![workspace_id] = n]

RECURSIVE recompute_each(_, _, _)
\* for workspace_vo in workspace_vos: stat_role_bindings, update_workspace_by_vo
recompute_each(counts, store, workspace_ids) ==
    IF workspace_ids = <<>> THEN counts
    ELSE recompute_each(
             update_workspace_by_vo(counts, Head(workspace_ids),
                 Cardinality(stat_role_bindings(store, Head(workspace_ids)))),
             store, Tail(workspace_ids))

\* remove_users_from_workspace_group with the sweep of the role-bindings
\* limited to the given workspace
remove_users_sweep_one_workspace(user_ids, old_users, workspace_id, workspace_ids) ==
    LET store == delete_role_bindings(rbs,
                     {rb \in DOMAIN rbs : /\ rb.user_id \in user_ids
                                 /\ rb.workspace_group_id = G
                                 /\ workspace_id \in {NoWorkspace, rb.workspace_id}})
        updated_users == FilterSeq(old_users, user_ids)
        deleted == WorkspacesOf(rbs, {rb \in DOMAIN rbs : rb \notin DOMAIN store})
    IN  IF workspace_id = NoWorkspace
        THEN Outcome("OK", "", updated_users, store,
                     recompute_each(user_count, store, workspace_ids),
                     {}, deleted, Range(workspace_ids))
        ELSE Outcome("OK", "", updated_users, store,
                     update_workspace_by_vo(user_count, workspace_id,
                         Cardinality(stat_role_bindings(store, workspace_id))),
                     {}, deleted, {workspace_id})

\* remove_users_from_workspace_group with the count of the given workspace
\* taken before the role-bindings are deleted
remove_users_count_before_delete(user_ids, old_users, workspace_id, workspace_ids) ==
    LET store == delete_role_bindings(rbs,
                     {rb \in DOMAIN rbs : rb.user_id \in user_ids /\ rb.workspace_group_id = G})
        updated_users == FilterSeq(old_users, user_ids)
        deleted == WorkspacesOf(rbs, {rb \in DOMAIN rbs : rb \notin DOMAIN store})
    IN  IF workspace_id = NoWorkspace
        THEN Outcome("OK", "", updated_users, store,
                     recompute_each(user_count, store, workspace_ids),
                     {}, deleted, Range(workspace_ids))
        ELSE Outcome("OK", "", updated_users, store,
                     update_workspace_by_vo(user_count, workspace_id,
                         Cardinality(stat_role_bindings(rbs, workspace_id))),
                     {}, deleted, {workspace_id})

\* remove_users_from_workspace_group that recomputes every workspace of the
\* group whether or not a workspace is given
remove_users_recompute_all(user_ids, old_users, workspace_id, workspace_ids) ==
    LET store == delete_role_bindings(rbs,
                     {rb \in DOMAIN rbs : rb.user_id \in user_ids /\ rb.workspace_group_id = G})
        updated_users == FilterSeq(old_users, user_ids)
        deleted == WorkspacesOf(rbs, {rb \in DOMAIN rbs : rb \notin DOMAIN store})
    IN  Outcome("OK", "", updated_users, store,
                recompute_each(user_count, store, workspace_ids),
                {}, deleted, Range(workspace_ids))

\* remove_users_from_workspace_group: updated_users, the store and the
\* counts after, for one listing order of the group's workspaces
remove_users_from_workspace_group(user_ids, old_users, workspace_id, workspace_ids) ==
    LET store == delete_role_bindings(rbs,
                     {rb \in DOMAIN rbs : rb.user_id \in user_ids /\ rb.workspace_group_id = G})
        updated_users == FilterSeq(old_users, user_ids)
        deleted == WorkspacesOf(rbs, {rb \in DOMAIN rbs : rb \notin DOMAIN store})
    IN  IF workspace_id = NoWorkspace
        THEN Outcome("OK", "", updated_users, store,
                     recompute_each(user_count, store, workspace_ids),
                     {}, deleted, Range(workspace_ids))
        ELSE Outcome("OK", "", updated_users, store,
                     update_workspace_by_vo(user_count, workspace_id,
                         Cardinality(stat_role_bindings(store, workspace_id))),
                     {}, deleted, {workspace_id})

\* remove_users without check_user_ids_exist_in_workspace_group
remove_users_unchecked(input, workspace_id) ==
    /\ call = NoCall
    /\ \E workspace_ids \in get_workspace_ids :
       \E ids \in {get_unique_user_ids(input, users)} :
       \E out \in {IF ~group_exists THEN Raise("NotFound", "workspace_group_id")
                   ELSE remove_users_from_workspace_group(
                            ids.new_user_ids, users, workspace_id, workspace_ids)} :
          /\ users' = out.users
          /\ rbs' = out.store
          /\ user_count' = out.counts
          /\ call' = Call("RemoveUsers", input, workspace_id, out)
          /\ hist' = IF out.err = "OK" /\ hist.phase = "added" /\ input = <<hist.user_id>>
                     THEN Hist("removed", hist.user_id, hist.pre_users)
                     ELSE NoHist
    /\ UNCHANGED <<group_exists, group_ws, user_state>>

remove_users(input, workspace_id) ==
    /\ call = NoCall
    /\ \E workspace_ids \in get_workspace_ids :
       \E ids \in {get_unique_user_ids(input, users)} :
       \E out \in {IF ~group_exists THEN Raise("NotFound", "workspace_group_id")
                   ELSE IF ~check_user_ids_exist_in_workspace_group(
                                ids.old_user_ids, ids.new_user_ids)
                   THEN Raise("NotFound", "user_id")
                   ELSE remove_users_from_workspace_group(
                            ids.new_user_ids, users, workspace_id, workspace_ids)} :
          /\ users' = out.users
          /\ rbs' = out.store
          /\ user_count' = out.counts
          /\ call' = Call("RemoveUsers", input, workspace_id, out)
          /\ hist' = IF out.err = "OK" /\ hist.phase = "added" /\ input = <<hist.user_id>>
                     THEN Hist("removed", hist.user_id, hist.pre_users)
                     ELSE NoHist
    /\ UNCHANGED <<group_exists, group_ws, user_state>>

(***************************************************************************)
(* Update member role.                                                     *)
(***************************************************************************)
\* check_user_state that lets a DISABLED user pass
check_user_state_deleted_only(old_user_state) == old_user_state # "DELETED"

\* passes (TRUE) unless the user is DISABLED or DELETED
check_user_state(old_user_state) == old_user_state \notin {"DISABLED", "DELETED"}

\* check_role_type that also lets the domain role type pass
check_role_type_lenient(role_type) ==
    role_type \in {"WORKSPACE_OWNER", "WORKSPACE_MEMBER", "DOMAIN_ADMIN"}

\* passes (TRUE) for the two workspace role types
check_role_type(role_type) == role_type \in {"WORKSPACE_OWNER", "WORKSPACE_MEMBER"}

RECURSIVE update_each_of_user(_, _, _, _, _)
\* update_each with the filter on the user alone, whatever group owns the row
update_each_of_user(store, todo, role_id, role_type, user_id) ==
    IF todo = {} THEN EmptyBag
    ELSE LET rb == CHOOSE x \in todo : TRUE
             to == IF rb.user_id = user_id
                   THEN [rb EXCEPT !.role_id = role_id, !.role_type = role_type]
                   ELSE rb
         IN  update_each_of_user(store, todo \ {rb}, role_id, role_type, user_id)
                 (+) [x \in {to} |-> store[rb]]

RECURSIVE update_each(_, _, _, _, _)
\* for role_binding_vo in role_binding_vos: role_binding_vo.update(...);
\* the rows outside the filter are kept as they are
update_each(store, todo, role_id, role_type, user_id) ==
    IF todo = {} THEN EmptyBag
    ELSE LET rb == CHOOSE x \in todo : TRUE
             to == IF rb.user_id = user_id /\ rb.workspace_group_id = G
                   THEN [rb EXCEPT !.role_id = role_id, !.role_type = role_type]
                   ELSE rb
         IN  update_each(store, todo \ {rb}, role_id, role_type, user_id)
                 (+) [x \in {to} |-> store[rb]]

\* update_user_role_of_workspace_group that leaves the role-bindings alone
update_user_role_of_workspace_group_skipped(store, role_id, role_type, user_id) == store

update_user_role_of_workspace_group(store, role_id, role_type, user_id) ==
    update_each(store, DOMAIN store, role_id, role_type, user_id)

\* PatchFirst without the test on user_id and without the break
PatchEvery(member_list, user_id, role_id, role_type) ==
    [i \in 1..Len(member_list) |->
        [member_list[i] EXCEPT !.role_id = role_id, !.role_type = role_type]]

RECURSIVE PatchFirst(_, _, _, _)
\* for user_info in users: if user_info.user_id == user_id: patch; break
PatchFirst(member_list, user_id, role_id, role_type) ==
    IF member_list = <<>> THEN <<>>
    ELSE IF Head(member_list).user_id = user_id
         THEN <<[Head(member_list) EXCEPT !.role_id = role_id, !.role_type = role_type]>>
                  \o Tail(member_list)
         ELSE <<Head(member_list)>> \o PatchFirst(Tail(member_list), user_id, role_id, role_type)

update_role(user_id, role_id) ==
    /\ call = NoCall
    /\ \E out \in {IF ~group_exists THEN Raise("NotFound", "workspace_group_id")
                   ELSE IF user_state[user_id] = "ABSENT" THEN Raise("NotFound", "user_id")
                   ELSE IF ~check_user_state(user_state[user_id])
                   THEN Raise("NotAllowedUserState", user_state[user_id])
                   ELSE IF RoleTypeOf(role_id) = "NO_ROLE" THEN Raise("NotFound", "role_id")
                   ELSE IF ~check_role_type(RoleTypeOf(role_id))
                   THEN Raise("NotAllowedRoleType", RoleTypeOf(role_id))
                   ELSE Outcome("OK", "",
                            PatchFirst(users, user_id, role_id, RoleTypeOf(role_id)),
                            update_user_role_of_workspace_group(
                                rbs, role_id, RoleTypeOf(role_id), user_id),
                            user_count, {}, {}, {})} :
          /\ users' = out.users
          /\ rbs' = out.store
          /\ call' = Call("UpdateMemberRole", <<UserInfo(user_id, role_id)>>, NoWorkspace, out)
    /\ hist' = NoHist
    /\ UNCHANGED <<group_exists, user_count, group_ws, user_state>>

(***************************************************************************)
(* Get and list.                                                           *)
(***************************************************************************)
\* WorkspaceGroupResponse(**workspace_group_dict)
get ==
    /\ call = NoCall
    /\ \E out \in {IF ~group_exists THEN Raise("NotFound", "workspace_group_id")
                   ELSE LET ids == get_unique_user_ids(
                                       [i \in 1..Len(users) |-> users[i].user_id], users)
                            workspace_group_user_ids ==
                                IF users # <<>> THEN ids.old_user_ids \cup ids.new_user_ids
                                ELSE {}
                            workspace_group_dict ==
                                add_user_name_and_state_to_users(workspace_group_user_ids, users)
                        IN  IF workspace_group_dict.none
                            THEN Raise("TypeError", "response")
                            ELSE [Raise("OK", "") EXCEPT !.response = workspace_group_dict]} :
          call' = Call("GetGroup", <<>>, NoWorkspace, out)
    /\ hist' = NoHist
    /\ UNCHANGED <<group_exists, users, rbs, user_count, group_ws, user_state>>

\* list: one result per group of the domain; the result of a group without
\* users is None, which the response model accepts or rejects
list ==
    /\ call = NoCall
    /\ group_exists
    /\ \E workspace_group_dict \in {add_user_name_and_state_to_users(MemberIds(users), users)} :
       \E err \in IF workspace_group_dict.none THEN {"OK", "ValidationError"} ELSE {"OK"} :
       \E out \in {[Raise(err, IF err = "OK" THEN "" ELSE "results")
                       EXCEPT !.response = workspace_group_dict]} :
          call' = Call("ListGroups", <<>>, NoWorkspace, out)
    /\ hist' = NoHist
    /\ UNCHANGED <<group_exists, users, rbs, user_count, group_ws, user_state>>

(***************************************************************************)
(* Delete group.                                                           *)
(***************************************************************************)
\* WorkspaceGroupManager.delete_workspace_group_by_vo: the group's own
\* role-bindings go with the group document.
delete_workspace_group_by_vo(store) ==
    delete_role_bindings(store, {rb \in DOMAIN store : rb.workspace_group_id = G})

\* delete that drops the group document without the manager's cascade
delete_document_only ==
    /\ call = NoCall
    /\ \E out \in {IF ~group_exists THEN Raise("NotFound", "workspace_group_id")
                   ELSE Outcome("OK", "", <<>>, rbs, user_count, {}, {}, {})} :
          /\ rbs' = out.store
          /\ users' = out.users
          /\ group_exists' = (group_exists /\ out.err # "OK")
          /\ call' = Call("DeleteGroup", <<>>, NoWorkspace, out)
    /\ hist' = NoHist
    /\ UNCHANGED <<user_count, group_ws, user_state>>

delete ==
    /\ call = NoCall
    /\ \E out \in {IF ~group_exists THEN Raise("NotFound", "workspace_group_id")
                   ELSE Outcome("OK", "", <<>>, delete_workspace_group_by_vo(rbs), user_count,
                            {},
                            WorkspacesOf(rbs, {rb \in DOMAIN rbs :
                                rb \notin DOMAIN delete_workspace_group_by_vo(rbs)}),
                            {})} :
          /\ rbs' = out.store
          /\ users' = out.users
          /\ group_exists' = (group_exists /\ out.err # "OK")
          /\ call' = Call("DeleteGroup", <<>>, NoWorkspace, out)
    /\ hist' = NoHist
    /\ UNCHANGED <<user_count, group_ws, user_state>>

\* The response of the handled request is returned to the caller.
respond ==
    /\ call # NoCall
    /\ call' = NoCall
    /\ hist' = IF hist.phase = "added" THEN hist ELSE NoHist
    /\ UNCHANGED <<group_exists, users, rbs, user_count, group_ws, user_state>>

(***************************************************************************)
(* The other services of the domain, which share the stores.               *)
(***************************************************************************)
recount(counts, store, w) == [counts EXCEPT ![w] = Cardinality(stat_role_bindings(store, w))]

RECURSIVE sync_members(_, _, _)
\* one binding per member entry in the attached workspace
sync_members(store, member_list, w) ==
    IF member_list = <<>> THEN store
    ELSE sync_members(
             create_role_binding(store,
                 RoleBinding(Head(member_list).user_id, Head(member_list).role_id,
                             Head(member_list).role_type, w, G)),
             Tail(member_list), w)

\* A workspace joins the group, with or without bindings for the members.
AttachWorkspace(w, sync) ==
    /\ call = NoCall
    /\ group_exists
    /\ w \in Workspaces \ group_ws
    /\ group_ws' = group_ws \cup {w}
    /\ rbs' = IF sync
              THEN sync_members(
                       delete_role_bindings(rbs,
                           {rb \in DOMAIN rbs : rb.user_id \in MemberIds(users) /\ rb.workspace_id = w}),
                       users, w)
              ELSE rbs
    /\ user_count' = recount(user_count, rbs', w)
    /\ call' = NoCall
    /\ hist' = NoHist
    /\ UNCHANGED <<group_exists, users, user_state>>

\* A workspace leaves the group; the group's bindings in it are deleted.
DetachWorkspace(w) ==
    /\ call = NoCall
    /\ w \in group_ws
    /\ group_ws' = group_ws \ {w}
    /\ rbs' = delete_role_bindings(rbs,
                  {rb \in DOMAIN rbs : rb.workspace_id = w /\ rb.workspace_group_id = G})
    /\ user_count' = recount(user_count, rbs', w)
    /\ call' = NoCall
    /\ hist' = NoHist
    /\ UNCHANGED <<group_exists, users, user_state>>

\* A role-binding made directly in a workspace (no workspace_group_id).
CreateWorkspaceRoleBinding(u, w) ==
    /\ call = NoCall
    /\ user_state[u] # "ABSENT"
    /\ NumRb(rbs, {rb \in DOMAIN rbs : rb.workspace_group_id = NoGroup}) < MaxExternal
    /\ NumRb(rbs, {rb \in DOMAIN rbs : rb.user_id = u /\ rb.workspace_id = w}) = 0
    /\ rbs' = create_role_binding(rbs, RoleBinding(u, "r2", "WORKSPACE_MEMBER", w, NoGroup))
    /\ user_count' = recount(user_count, rbs', w)
    /\ call' = NoCall
    /\ hist' = NoHist
    /\ UNCHANGED <<group_exists, users, group_ws, user_state>>

\* The user service enables, disables or deletes a user.
SetUserState(u, s) ==
    /\ call = NoCall
    /\ user_state[u] # s
    /\ user_state' = [user_state EXCEPT ![u] = s]
    /\ call' = NoCall
    /\ hist' = NoHist
    /\ UNCHANGED <<group_exists, users, rbs, user_count, group_ws>>

(***************************************************************************)
(* Specification.                                                          *)
(***************************************************************************)
Init ==
    /\ group_exists = TRUE
    /\ users = <<>>
    /\ rbs = EmptyBag
    /\ user_count = [w \in Workspaces |-> 0]
    /\ group_ws = {}
    /\ user_state = [u \in UserIds |-> "ENABLED"]
    /\ call = NoCall
    /\ hist = NoHist

Next ==
    \/ \E input \in AddInputs : add_users(input)
    \/ \E input \in RemoveInputs, w \in Workspaces \cup {NoWorkspace} : remove_users(input, w)
    \/ \E u \in UserIds, r \in RoleIds : update_role(u, r)
    \/ get
    \/ list
    \/ delete
    \/ respond
    \/ \E w \in Workspaces, sync \in BOOLEAN : AttachWorkspace(w, sync)
    \/ \E w \in Workspaces : DetachWorkspace(w)
    \/ \E u \in UserIds, w \in Workspaces : CreateWorkspaceRoleBinding(u, w)
    \/ \E s \in {"ENABLED", "DISABLED", "DELETED", "ABSENT"} : SetUserState("u2", s)

Spec == Init /\ [][Next]_vars

(***************************************************************************)
(* Concurrent AddUsers requests.  The handler takes no lock on the group:   *)
(* under SpecConcurrent two requests run process_add_users step by step,   *)
(* interleaved at its reads and writes of the shared stores.               *)
(* Here `call` holds the local variables of both requests and the request  *)
(* that wrote the group document last.                                     *)
(***************************************************************************)
Requests == {"a", "b"}

ConcurrentInputs == {<<UserInfo(u, r)>> : u \in UserIds, r \in {"r1", "r2", "r3"}}

\* the local variables of a request that has not arrived
Idle ==
    [pc |-> "idle", input |-> <<>>, err |-> "", old_user_ids |-> {}, new_user_ids |-> {},
     vo_users |-> <<>>, workspace_ids |-> <<>>, new_list |-> <<>>, response |-> None]

At(p, pc) == call.requests[p].pc = pc

Local(p) == call.requests[p]

\* the request goes on with local variables `local`
Goto(p, local) == call' = [call EXCEPT !.requests[p] = local]

\* the request ends with an error
Fail(p, err) == Goto(p, [Local(p) EXCEPT !.pc = "done", !.err = err])

\* a request arrives
receive_add_users(p, input) ==
    /\ At(p, "idle")
    /\ Goto(p, [Local(p) EXCEPT !.pc = "received", !.input = input])
    /\ UNCHANGED <<group_exists, users, rbs, user_count, group_ws, user_state, hist>>

\* get_unique_user_ids reads the members of the group; the two checks on
\* the new users follow
validate_new_users(p) ==
    /\ At(p, "received")
    /\ LET ids == get_unique_user_ids(
                      [i \in 1..Len(Local(p).input) |-> Local(p).input[i].user_id], users)
       IN  IF ~check_new_users_already_in_workspace_group(ids.old_user_ids, ids.new_user_ids)
           THEN Fail(p, "InvalidParameter")
           ELSE IF ~check_new_users_exist_in_domain(ids.new_user_ids)
           THEN Fail(p, "NotFound")
           ELSE Goto(p, [Local(p) EXCEPT !.pc = "validated",
                                         !.old_user_ids = ids.old_user_ids,
                                         !.new_user_ids = ids.new_user_ids])
    /\ UNCHANGED <<group_exists, users, rbs, user_count, group_ws, user_state, hist>>

\* workspace_group_vo = get_workspace_group(...): the document as it is now;
\* then get_role_map and get_workspace_ids
read_workspace_group(p) ==
    /\ At(p, "validated")
    /\ IF ~get_role_map(Local(p).input)
       THEN Fail(p, "InvalidParameter")
       ELSE \E workspace_ids \in get_workspace_ids :
               Goto(p, [Local(p) EXCEPT !.pc = "read",
                                        !.vo_users = users,
                                        !.workspace_ids = workspace_ids])
    /\ UNCHANGED <<group_exists, users, rbs, user_count, group_ws, user_state, hist>>

\* delete_workspace_users_role_binding, when the group has workspaces
clear_role_bindings(p) ==
    /\ At(p, "read")
    /\ rbs' = IF Local(p).workspace_ids # <<>>
              THEN delete_workspace_users_role_binding(
                       rbs, Local(p).new_user_ids, Range(Local(p).workspace_ids))
              ELSE rbs
    /\ Goto(p, [Local(p) EXCEPT !.pc = "cleared"])
    /\ UNCHANGED <<group_exists, users, user_count, group_ws, user_state, hist>>

\* add_users_to_workspace_group: the new role-bindings and the new entries
create_role_bindings(p) ==
    /\ At(p, "cleared")
    /\ \E added \in {add_users_to_workspace_group(
                        Local(p).input, Local(p).workspace_ids, rbs)} :
          /\ rbs' = added.store
          /\ Goto(p, [Local(p) EXCEPT !.pc = "created", !.new_list = added.list])
    /\ UNCHANGED <<group_exists, users, user_count, group_ws, user_state, hist>>

\* update_workspace_group_by_vo that appends the new entries to the users
\* list of the stored document instead of writing the list
update_workspace_group_by_vo_push(p) ==
    /\ At(p, "created")
    /\ users' = users \o Local(p).new_list
    /\ call' = [call EXCEPT !.requests[p].pc = "written", !.last_write = p]
    /\ UNCHANGED <<group_exists, rbs, user_count, group_ws, user_state, hist>>

\* update_workspace_group_by_vo({"users": old entries of the document read
\* + new entries}, workspace_group_vo): the users list is written as a whole
update_workspace_group_by_vo(p) ==
    /\ At(p, "created")
    /\ users' = Local(p).vo_users \o Local(p).new_list
    /\ call' = [call EXCEPT !.requests[p].pc = "written", !.last_write = p]
    /\ UNCHANGED <<group_exists, rbs, user_count, group_ws, user_state, hist>>

\* the response is built from the document just written
return_response(p) ==
    /\ At(p, "written")
    /\ \E workspace_group_user_info \in
             {add_user_name_and_state_to_users(
                  Local(p).old_user_ids \cup Local(p).new_user_ids,
                  Local(p).vo_users \o Local(p).new_list)} :
          Goto(p, [Local(p) EXCEPT
                      !.pc = "done",
                      !.err = IF workspace_group_user_info.none THEN "TypeError" ELSE "OK",
                      !.response = workspace_group_user_info])
    /\ UNCHANGED <<group_exists, users, rbs, user_count, group_ws, user_state, hist>>

\* a group without members, with any of the workspaces attached
InitConcurrent ==
    /\ group_exists = TRUE
    /\ users = <<>>
    /\ rbs = EmptyBag
    /\ user_count = [w \in Workspaces |-> 0]
    /\ group_ws \in SUBSET Workspaces
    /\ user_state = [u \in UserIds |-> "ENABLED"]
    /\ call = [requests |-> [p \in Requests |-> Idle], last_write |-> "none"]
    /\ hist = NoHist

NextConcurrent ==
    \/ \E p \in Requests, input \in ConcurrentInputs : receive_add_users(p, input)
    \/ \E p \in Requests : validate_new_users(p)
    \/ \E p \in Requests : read_workspace_group(p)
    \/ \E p \in Requests : clear_role_bindings(p)
    \/ \E p \in Requests : create_role_bindings(p)
    \/ \E p \in Requests : update_workspace_group_by_vo(p)
    \/ \E p \in Requests : return_response(p)

SpecConcurrent == InitConcurrent /\ [][NextConcurrent]_vars

(***************************************************************************)
(* Failures.  Under SpecFailure one request runs step by step on a group   *)
(* with members, and a call to a store may fail while the role-bindings    *)
(* are deleted or created or the user_counts are recomputed.  The request  *)
(* then ends with the error, after the rollbacks registered with the       *)
(* transaction have been applied, and the caller invokes it again.         *)
(* Request "a" is the first invocation, request "b" the second.            *)
(***************************************************************************)
\* the local variables of a RemoveUsers request that has arrived
RemoveLocal(input, workspace_id) ==
    [pc |-> "received", input |-> input, workspace_id |-> workspace_id, err |-> "",
     user_ids |-> {}, old_users |-> <<>>, updated_users |-> <<>>,
     todo |-> <<>>,          \* workspace_vos not yet visited by the loop
     attempted |-> {},       \* workspaces whose recompute was begun
     written |-> {},         \* workspaces whose user_count was written
     rollbacks |-> <<>>,     \* transaction rollbacks, in order of registration
     pre_count |-> user_count]

IsRemove(p) == "workspace_id" \in DOMAIN Local(p)

\* the role-bindings filter_role_bindings(user_id, workspace_group_id,
\* domain_id) returns
RemoveTargets(p) ==
    {rb \in DOMAIN rbs : rb.user_id \in Local(p).user_ids /\ rb.workspace_group_id = G}

\* transaction.add_rollback(_rollback, workspace_vo.to_dict()) registered
\* with the values the update wrote
add_rollback_after_update(counts, workspace_id, n) ==
    [workspace_id |-> workspace_id, old_data |-> [user_count |-> n]]

\* transaction.add_rollback(_rollback, workspace_vo.to_dict()): the
\* workspace as it is before the update
add_rollback(counts, workspace_id, n) ==
    [workspace_id |-> workspace_id, old_data |-> [user_count |-> counts[workspace_id]]]

receive_remove_users(p, input, workspace_id) ==
    /\ At(p, "idle")
    /\ Goto(p, RemoveLocal(input, workspace_id))
    /\ UNCHANGED <<group_exists, users, rbs, user_count, group_ws, user_state, hist>>

\* get_unique_user_ids, check_user_ids_exist_in_workspace_group, then
\* old_users of the document read
check_user_ids(p) ==
    /\ IsRemove(p) /\ At(p, "received")
    /\ LET ids == get_unique_user_ids(Local(p).input, users)
       IN  IF ~check_user_ids_exist_in_workspace_group(ids.old_user_ids, ids.new_user_ids)
           THEN Fail(p, "NotFound")
           ELSE Goto(p, [Local(p) EXCEPT !.pc = "deleting",
                                         !.user_ids = ids.new_user_ids,
                                         !.old_users = users])
    /\ UNCHANGED <<group_exists, users, rbs, user_count, group_ws, user_state, hist>>

\* delete_role_binding_by_vo that takes the user of the role-binding out of
\* the users list of the group at once
delete_role_binding_by_vo_and_member(p) ==
    /\ IsRemove(p) /\ At(p, "deleting")
    /\ \E rb \in RemoveTargets(p) :
          /\ rbs' = rbs (-) SetToBag({rb})
          /\ users' = FilterSeq(users, {rb.user_id})
    /\ UNCHANGED <<group_exists, user_count, group_ws, user_state, call, hist>>

\* for rb_vo in rb_vos: delete_role_binding_by_vo(rb_vo), one row
delete_role_binding_by_vo(p) ==
    /\ IsRemove(p) /\ At(p, "deleting")
    /\ \E rb \in RemoveTargets(p) : rbs' = rbs (-) SetToBag({rb})
    /\ UNCHANGED <<group_exists, users, user_count, group_ws, user_state, call, hist>>

\* updated_users, then the workspaces to recompute: those of the group, or
\* the workspace given
filter_updated_users(p) ==
    /\ IsRemove(p) /\ At(p, "deleting")
    /\ RemoveTargets(p) = {}
    /\ \E workspace_ids \in IF Local(p).workspace_id = NoWorkspace
                            THEN get_workspace_ids
                            ELSE {<<Local(p).workspace_id>>} :
          Goto(p, [Local(p) EXCEPT
                      !.pc = "recomputing",
                      !.updated_users = FilterSeq(Local(p).old_users, Local(p).user_ids),
                      !.todo = workspace_ids])
    /\ UNCHANGED <<group_exists, users, rbs, user_count, group_ws, user_state, hist>>

\* stat_role_bindings and update_workspace_by_vo for the next workspace
recompute_user_count(p) ==
    /\ IsRemove(p) /\ At(p, "recomputing")
    /\ Local(p).todo # <<>>
    /\ LET w == Head(Local(p).todo)
           n == Cardinality(stat_role_bindings(rbs, w))
       IN  /\ user_count' = update_workspace_by_vo(user_count, w, n)
           /\ Goto(p, [Local(p) EXCEPT
                          !.todo = Tail(Local(p).todo),
                          !.attempted = @ \cup {w},
                          !.written = @ \cup {w},
                          !.rollbacks = Append(@, add_rollback(user_count, w, n))])
    /\ UNCHANGED <<group_exists, users, rbs, group_ws, user_state, hist>>

\* params.users = updated_users; update_workspace_group_by_vo
write_updated_users(p) ==
    /\ IsRemove(p) /\ At(p, "recomputing")
    /\ Local(p).todo = <<>>
    /\ users' = Local(p).updated_users
    /\ call' = [call EXCEPT !.requests[p].pc = "written", !.last_write = p]
    /\ UNCHANGED <<group_exists, rbs, user_count, group_ws, user_state, hist>>

return_removed(p) ==
    /\ IsRemove(p) /\ At(p, "written")
    /\ Goto(p, [Local(p) EXCEPT !.pc = "done", !.err = "OK"])
    /\ UNCHANGED <<group_exists, users, rbs, user_count, group_ws, user_state, hist>>

\* a deletion of a role-binding raises
fail_delete(p) ==
    /\ IsRemove(p) /\ At(p, "deleting")
    /\ RemoveTargets(p) # {}
    /\ Goto(p, [Local(p) EXCEPT !.pc = "failed", !.err = "Failure"])
    /\ UNCHANGED <<group_exists, users, rbs, user_count, group_ws, user_state, hist>>

\* the recompute of the next workspace raises: the exception leaves the loop
fail_recompute(p) ==
    /\ IsRemove(p) /\ At(p, "recomputing")
    /\ Local(p).todo # <<>>
    /\ Goto(p, [Local(p) EXCEPT !.pc = "failed", !.err = "Failure",
                                !.attempted = @ \cup {Head(Local(p).todo)}])
    /\ UNCHANGED <<group_exists, users, rbs, user_count, group_ws, user_state, hist>>

\* the transaction applies the rollback registered last: workspace_vo.update(old_data)
apply_rollback(p) ==
    /\ IsRemove(p) /\ At(p, "failed")
    /\ Local(p).rollbacks # <<>>
    /\ LET top == Local(p).rollbacks[Len(Local(p).rollbacks)]
       IN  /\ user_count' = [user_count EXCEPT ![top.workspace_id] = top.old_data.user_count]
           /\ Goto(p, [Local(p) EXCEPT
                          !.rollbacks = SubSeq(@, 1, Len(@) - 1)])
    /\ UNCHANGED <<group_exists, users, rbs, group_ws, user_state, hist>>

\* the error reaches the caller
raise_failure(p) ==
    /\ IsRemove(p) /\ At(p, "failed")
    /\ Local(p).rollbacks = <<>>
    /\ Goto(p, [Local(p) EXCEPT !.pc = "done"])
    /\ UNCHANGED <<group_exists, users, rbs, user_count, group_ws, user_state, hist>>

\* AddUsers: a deletion of delete_workspace_users_role_binding raises, after
\* some of the role-bindings were deleted
fail_clear(p) ==
    /\ ~IsRemove(p) /\ At(p, "read")
    /\ Local(p).workspace_ids # <<>>
    /\ \E gone \in SUBSET {rb \in DOMAIN rbs : /\ rb.user_id \in Local(p).new_user_ids
                                              /\ rb.workspace_id \in Range(Local(p).workspace_ids)} :
          rbs' = delete_role_bindings(rbs, gone)
    /\ Fail(p, "Failure")
    /\ UNCHANGED <<group_exists, users, user_count, group_ws, user_state, hist>>

\* AddUsers: a create_role_binding raises, after those of the first k
\* entries of the input were made
fail_create(p) ==
    /\ ~IsRemove(p) /\ At(p, "cleared")
    /\ Local(p).workspace_ids # <<>>
    /\ \E k \in 0..(Len(Local(p).input) - 1) :
          rbs' = add_users_to_workspace_group(
                     SubSeq(Local(p).input, 1, k), Local(p).workspace_ids, rbs).store
    /\ Fail(p, "Failure")
    /\ UNCHANGED <<group_exists, users, user_count, group_ws, user_state, hist>>

FirstInvocation == \A p \in Requests : At(p, "idle")

Failed(p) == At(p, "done") /\ Local(p).err = "Failure"

invoke_add_users(input) == FirstInvocation /\ receive_add_users("a", input)

invoke_remove_users(input, workspace_id) ==
    FirstInvocation /\ receive_remove_users("a", input, workspace_id)

\* the caller invokes the failed request again, with the same parameters
invoke_again ==
    /\ Failed("a")
    /\ IF IsRemove("a")
       THEN receive_remove_users("b", Local("a").input, Local("a").workspace_id)
       ELSE receive_add_users("b", Local("a").input)

\* the member entries of a group whose role-bindings are synchronized
MemberLists ==
    {m \in SeqsUpTo({[user_id |-> u, role_id |-> r, role_type |-> RoleTypeOf(r)] :
                         u \in UserIds, r \in {"r1", "r2"}}, Cardinality(UserIds)) :
        Cardinality(MemberIds(m)) = Len(m)}

RECURSIVE sync_workspaces(_, _, _)
sync_workspaces(store, member_list, ws) ==
    IF ws = {} THEN store
    ELSE LET w == CHOOSE x \in ws : TRUE
         IN  sync_workspaces(sync_members(store, member_list, w), member_list, ws \ {w})

\* a group with members and workspaces, every member bound in every
\* workspace, every user_count up to date
InitFailure ==
    /\ group_exists = TRUE
    /\ users \in MemberLists
    /\ group_ws \in SUBSET Workspaces
    /\ rbs = sync_workspaces(EmptyBag, users, group_ws)
    /\ user_count = [w \in Workspaces |-> Cardinality(stat_role_bindings(rbs, w))]
    /\ user_state = [u \in UserIds |-> "ENABLED"]
    /\ call = [requests |-> [p \in Requests |-> Idle], last_write |-> "none"]
    /\ hist = NoHist

NextFailure ==
    \/ \E input \in AddInputs \ {<<>>} : invoke_add_users(input)
    \/ \E input \in RemoveInputs, w \in Workspaces \cup {NoWorkspace} :
          invoke_remove_users(input, w)
    \/ invoke_again
    \/ \E p \in Requests : ~IsRemove(p) /\ validate_new_users(p)
    \/ \E p \in Requests : ~IsRemove(p) /\ read_workspace_group(p)
    \/ \E p \in Requests : ~IsRemove(p) /\ clear_role_bindings(p)
    \/ \E p \in Requests : ~IsRemove(p) /\ create_role_bindings(p)
    \/ \E p \in Requests : ~IsRemove(p) /\ update_workspace_group_by_vo(p)
    \/ \E p \in Requests : ~IsRemove(p) /\ return_response(p)
    \/ \E p \in Requests : fail_clear(p)
    \/ \E p \in Requests : fail_create(p)
    \/ \E p \in Requests : check_user_ids(p)
    \/ \E p \in Requests : delete_role_binding_by_vo(p)
    \/ \E p \in Requests : filter_updated_users(p)
    \/ \E p \in Requests : recompute_user_count(p)
    \/ \E p \in Requests : write_updated_users(p)
    \/ \E p \in Requests : return_removed(p)
    \/ \E p \in Requests : fail_delete(p)
    \/ \E p \in Requests : fail_recompute(p)
    \/ \E p \in Requests : apply_rollback(p)
    \/ \E p \in Requests : raise_failure(p)

SpecFailure == InitFailure /\ [][NextFailure]_vars

TypeOK ==
    /\ group_exists \in BOOLEAN
    /\ group_ws \subseteq Workspaces
    /\ \A w \in Workspaces : user_count[w] \in 0..Cardinality(UserIds)
    /\ IsABag(rbs)
    /\ \A i \in 1..Len(users) : users[i].role_type = RoleTypeOf(users[i].role_id)

(***************************************************************************)
(* Properties.                                                             *)
(***************************************************************************)
Handled(op) == call.op = op
Succeeded(op) == call.op = op /\ call.err = "OK"

\* the user ids a handled request names
Named == IF call.op = "RemoveUsers" THEN Range(call.input)
         ELSE {call.input[i].user_id : i \in 1..Len(call.input)}

DistinctUsers(store, w) == {rb.user_id : rb \in {x \in DOMAIN store : x.workspace_id = w}}

\* C1: every user_id appears at most once in the persisted users list, in
\* every state the requests (succeeding or failing) and the other services
\* can lead to.
NoDuplicateMembers == Cardinality(MemberIds(users)) = Len(users)

\* a successful AddUsers that named one user twice, on a group with a member
NoDuplicateMembers_witness ==
    /\ Succeeded("AddUsers")
    /\ call.pre.users # <<>>
    /\ Len(call.input) = 2
    /\ call.input[1].user_id = call.input[2].user_id
    /\ Len(users) = 2

\* C2: after a successful AddUsers on a group with at least one workspace,
\* every user the request names has, in every workspace of the group,
\* exactly one role-binding, which is owned by the group and carries a
\* role_id the request gave for that user with its role type.
FanOutOnAdd ==
    (Succeeded("AddUsers") /\ group_ws # {}) =>
        \A u \in Named, w \in group_ws :
            /\ NumRb(rbs, {rb \in DOMAIN rbs : rb.user_id = u /\ rb.workspace_id = w}) = 1
            /\ \A rb \in DOMAIN rbs :
                  (rb.user_id = u /\ rb.workspace_id = w) =>
                      /\ rb.workspace_group_id = G
                      /\ rb.role_type = RoleTypeOf(rb.role_id)
                      /\ \E i \in 1..Len(call.input) :
                            /\ call.input[i].user_id = u
                            /\ call.input[i].role_id = rb.role_id

RemoveSweepsGroupWide ==
    Succeeded("RemoveUsers") =>
        /\ NumRb(rbs, {rb \in DOMAIN rbs : rb.user_id \in Named /\ rb.workspace_group_id = G}) = 0
        /\ MemberIds(users) \cap Named = {}

\* a RemoveUsers with a workspace that deleted a binding in another one
RemoveSweepsGroupWide_witness ==
    /\ Succeeded("RemoveUsers")
    /\ call.workspace_id # NoWorkspace
    /\ call.deleted \ {call.workspace_id} # {}

\* C5: an AddUsers that names a user who is a member already raises
\* InvalidParameter and leaves the users list, the role-binding store and
\* every user_count as they were.
AddExistingRejected ==
    (Handled("AddUsers") /\ MemberIds(call.pre.users) \cap Named # {}) =>
        /\ call.err = "InvalidParameter"
        /\ users = call.pre.users
        /\ rbs = call.pre.rbs
        /\ user_count = call.pre.user_count

\* an AddUsers of two users, both members already, who hold role-bindings
AddExistingRejected_witness ==
    /\ Handled("AddUsers")
    /\ call.err = "InvalidParameter"
    /\ Cardinality(Named) = 2
    /\ Named \subseteq MemberIds(call.pre.users)
    /\ rbs # EmptyBag

\* C6: AddUsers of one user who is no member, directly followed by
\* RemoveUsers of that user, leaves the users list as it was before the
\* AddUsers and no role-binding of that user owned by the group.
RoundTrip ==
    hist.phase = "removed" =>
        /\ users = hist.pre_users
        /\ NumRb(rbs, {rb \in DOMAIN rbs : rb.user_id = hist.user_id /\ rb.workspace_group_id = G}) = 0

\* a round trip on a group with another member, whose AddUsers created a
\* role-binding that the RemoveUsers deleted
RoundTrip_witness ==
    /\ hist.phase = "removed"
    /\ hist.pre_users # <<>>
    /\ Succeeded("RemoveUsers")
    /\ call.deleted # {}

\* the workspaces in which a handled request created, deleted or updated
\* role-bindings
Touched ==
    call.created \cup call.deleted \cup
        (IF Succeeded("UpdateMemberRole")
         THEN WorkspacesOf(rbs, {rb \in DOMAIN rbs : rb.user_id \in Named /\ rb.workspace_group_id = G})
         ELSE {})

\* C7: after every completed AddUsers, RemoveUsers or UpdateMemberRole, the
\* user_count of every workspace of the group whose role-bindings the
\* request touched equals the number of distinct users bound to it.
CountMatchesBindings ==
    (Succeeded("AddUsers") \/ Succeeded("RemoveUsers") \/ Succeeded("UpdateMemberRole")) =>
        \A w \in Touched \cap group_ws :
            user_count[w] = Cardinality(DistinctUsers(rbs, w))

\* the role-bindings of workspace w that a RemoveUsers of the targets leaves
LeftIn(store, targets, w) ==
    {rb \in DOMAIN store :
        /\ rb.workspace_id = w
        /\ ~(rb.user_id \in targets /\ rb.workspace_group_id = G)}

\* C8: after a successful RemoveUsers with a workspace, the user_count of
\* that workspace is the number of distinct users holding a role-binding in
\* it once the targets' bindings owned by the group are deleted: 0 when no
\* other binding was there.
CountAfterRemoveIn ==
    (Succeeded("RemoveUsers") /\ call.workspace_id # NoWorkspace) =>
        LET w == call.workspace_id
            left == LeftIn(call.pre.rbs, Named, w)
        IN  /\ user_count[w] = Cardinality({rb.user_id : rb \in left})
            /\ (left = {} => user_count[w] = 0)

\* the removed user was the only user bound to the workspace, which had
\* user_count 1, and it has user_count 0 after
CountAfterRemoveIn_witness ==
    /\ Succeeded("RemoveUsers")
    /\ call.workspace_id # NoWorkspace
    /\ Cardinality(Named) = 1
    /\ DistinctUsers(call.pre.rbs, call.workspace_id) = Named
    /\ call.pre.user_count[call.workspace_id] = 1
    /\ user_count[call.workspace_id] = 0

\* C9: a successful RemoveUsers with a workspace writes the user_count of
\* that workspace only and leaves every other user_count as it was; without
\* a workspace it recomputes the user_count of every workspace of the group
\* and leaves those of the workspaces outside the group as they were.
RecomputeScope ==
    Succeeded("RemoveUsers") =>
        IF call.workspace_id # NoWorkspace
        THEN /\ call.written = {call.workspace_id}
             /\ \A w \in Workspaces \ {call.workspace_id} :
                   user_count[w] = call.pre.user_count[w]
        ELSE /\ call.written = group_ws
             /\ \A w \in group_ws : user_count[w] = Cardinality(DistinctUsers(rbs, w))
             /\ \A w \in Workspaces \ group_ws : user_count[w] = call.pre.user_count[w]

\* a RemoveUsers with a workspace that deleted a binding in the group's
\* other workspace, whose user_count it left at a value now out of date
RecomputeScope_witness ==
    /\ Succeeded("RemoveUsers")
    /\ call.workspace_id # NoWorkspace
    /\ \E w \in group_ws \ {call.workspace_id} :
          /\ w \in call.deleted
          /\ call.pre.user_count[w] = Cardinality(DistinctUsers(call.pre.rbs, w))
          /\ user_count[w] # Cardinality(DistinctUsers(rbs, w))

\* an UpdateMemberRole on the existing group with a role id that resolves to
\* a role type outside the two workspace role types
DomainRoleRequested ==
    /\ Handled("UpdateMemberRole")
    /\ group_exists
    /\ RoleTypeOf(call.input[1].role_id) \notin
           {"WORKSPACE_OWNER", "WORKSPACE_MEMBER", "NO_ROLE"}

NothingModified ==
    /\ users = call.pre.users
    /\ rbs = call.pre.rbs

\* C10 as stated, for a user the directory holds: an UpdateMemberRole with
\* a role id that resolves to a role type outside the two workspace role
\* types fails with NotAllowedRoleType, and no role-binding and no member
\* entry is modified.
RoleTypeGateForAnyUser ==
    (DomainRoleRequested /\ user_state[call.input[1].user_id] # "ABSENT") =>
        /\ call.err = "NotAllowedRoleType"
        /\ NothingModified

\* C10, amended: such an UpdateMemberRole fails and modifies nothing; the
\* error is NotAllowedRoleType when the user is in the directory and is
\* neither DISABLED nor DELETED, NotFound when the user is not in the
\* directory, NotAllowedUserState when the user is DISABLED or DELETED.
RoleTypeGate ==
    DomainRoleRequested =>
        /\ NothingModified
        /\ call.err =
              (LET state == user_state[call.input[1].user_id]
               IN  IF state = "ABSENT" THEN "NotFound"
                   ELSE IF state \in {"DISABLED", "DELETED"} THEN "NotAllowedUserState"
                   ELSE "NotAllowedRoleType")

\* the domain role was requested for a member who holds a role-binding of
\* the group, and the request failed with NotAllowedRoleType
RoleTypeGate_witness ==
    /\ DomainRoleRequested
    /\ call.err = "NotAllowedRoleType"
    /\ call.input[1].user_id \in MemberIds(users)
    /\ NumRb(rbs, {rb \in DOMAIN rbs : rb.user_id \in Named /\ rb.workspace_group_id = G}) > 0

\* C11: an UpdateMemberRole on the existing group for a user whose state in
\* the directory is DISABLED or DELETED fails with NotAllowedUserState,
\* whatever role id it requests, and modifies no role-binding and no entry
\* of the users list.
UserStateGate ==
    (/\ Handled("UpdateMemberRole")
     /\ group_exists
     /\ user_state[call.input[1].user_id] \in {"DISABLED", "DELETED"}) =>
        /\ call.err = "NotAllowedUserState"
        /\ NothingModified

\* a workspace role other than the one held was requested for a DISABLED
\* member who holds a role-binding of the group
UserStateGate_witness ==
    /\ Handled("UpdateMemberRole")
    /\ call.err = "NotAllowedUserState"
    /\ user_state[call.input[1].user_id] = "DISABLED"
    /\ RoleTypeOf(call.input[1].role_id) \in {"WORKSPACE_OWNER", "WORKSPACE_MEMBER"}
    /\ \E i \in 1..Len(users) :
          /\ users[i].user_id = call.input[1].user_id
          /\ users[i].role_id # call.input[1].role_id
    /\ NumRb(rbs, {rb \in DOMAIN rbs : rb.user_id \in Named /\ rb.workspace_group_id = G}) > 0

\* C12: a successful AddUsers on a group without workspaces appends to the
\* users list one entry per new user, holding the user_id, a role_id the
\* request gave for that user and the role type that role_id resolves to,
\* and creates and deletes no role-binding.
AddWithoutWorkspaces ==
    (Succeeded("AddUsers") /\ group_ws = {}) =>
        /\ rbs = call.pre.rbs
        /\ call.created = {}
        /\ call.deleted = {}
        /\ Len(users) = Len(call.pre.users) + Cardinality(Named)
        /\ SubSeq(users, 1, Len(call.pre.users)) = call.pre.users
        /\ \A u \in Named :
              \E i \in (Len(call.pre.users) + 1)..Len(users) :
                 /\ users[i].user_id = u
                 /\ users[i].role_type = RoleTypeOf(users[i].role_id)
                 /\ \E j \in 1..Len(call.input) :
                       call.input[j] = UserInfo(u, users[i].role_id)

\* two users were added to a group without members and without workspaces
\* while one of the two held a role-binding in a workspace
AddWithoutWorkspaces_witness ==
    /\ Succeeded("AddUsers")
    /\ group_ws = {}
    /\ Cardinality(Named) = 2
    /\ Len(users) = 2
    /\ NumRb(rbs, {rb \in DOMAIN rbs : rb.user_id \in Named}) > 0

\* C13: a RemoveUsers on the existing group that names a user who is no
\* member fails with NotFound, deletes no role-binding, leaves the users
\* list as it was and writes no user_count.
RemoveUnknownRejected ==
    (/\ Handled("RemoveUsers")
     /\ group_exists
     /\ ~(Named \subseteq MemberIds(call.pre.users))) =>
        /\ call.err = "NotFound"
        /\ users = call.pre.users
        /\ rbs = call.pre.rbs
        /\ user_count = call.pre.user_count
        /\ call.deleted = {}
        /\ call.written = {}

\* a RemoveUsers with a workspace named a member who holds a role-binding
\* of the group and a user who is no member, and was rejected
RemoveUnknownRejected_witness ==
    /\ Handled("RemoveUsers")
    /\ call.err = "NotFound"
    /\ call.reason = "user_id"
    /\ call.workspace_id # NoWorkspace
    /\ Named \cap MemberIds(users) # {}
    /\ Named \ MemberIds(users) # {}
    /\ NumRb(rbs, {rb \in DOMAIN rbs : rb.user_id \in Named /\ rb.workspace_group_id = G}) > 0

\* the role_id of the last entry of the input for the user
LastRoleOf(input, user_id) ==
    input[CHOOSE i \in 1..Len(input) :
              /\ input[i].user_id = user_id
              /\ \A j \in (i + 1)..Len(input) : input[j].user_id # user_id].role_id

\* C14: after a successful AddUsers, the users-list entry of every user the
\* request names, and every role-binding of that user owned by the group,
\* carries the role_id of the last entry of the input for that user.
TieBreakOnAdd ==
    Succeeded("AddUsers") =>
        /\ \A i \in 1..Len(users) :
              users[i].user_id \in Named =>
                  users[i].role_id = LastRoleOf(call.input, users[i].user_id)
        /\ \A rb \in DOMAIN rbs :
              (rb.user_id \in Named /\ rb.workspace_group_id = G) =>
                  rb.role_id = LastRoleOf(call.input, rb.user_id)

\* C15: concurrent requests on the group are not mutually excluded, and
\* the group document is written last-write-wins: whenever a request has
\* written the document, the users list is the list that request read
\* followed by its own new entries, whatever the other request wrote in
\* between.
LastWriteWins ==
    call.last_write # "none" =>
        users = Local(call.last_write).vo_users \o Local(call.last_write).new_list

\* two AddUsers requests for different users, neither a member, have both
\* returned without error, and the users list holds the user of one only
LastWriteWins_witness ==
    /\ \A p \in Requests : At(p, "done") /\ Local(p).err = "OK"
    /\ Local("a").input[1].user_id # Local("b").input[1].user_id
    /\ Len(users) = 1
    /\ \E p \in Requests : MemberIds(users) = {Local(p).input[1].user_id}

\* the entry the enrichment join returns for a member entry
Joined(user) ==
    [user_id   |-> user.user_id,
     role_id   |-> user.role_id,
     role_type |-> user.role_type,
     user_name |-> IF user_state[user.user_id] = "ABSENT" THEN "" ELSE NameOf(user.user_id),
     state     |-> IF user_state[user.user_id] = "ABSENT" THEN "" ELSE user_state[user.user_id]]

\* C16: a GetGroup or a ListGroups on the existing group returns without
\* error a record whose users list holds, in order, one entry per persisted
\* member with the name and the state of the directory joined in, both ""
\* for a member the directory lacks; also when the group has no member.
EnrichedRead ==
    ((Handled("GetGroup") \/ Handled("ListGroups")) /\ group_exists) =>
        /\ call.err = "OK"
        /\ ~call.response.none
        /\ Len(call.response.users) = Len(users)
        /\ \A i \in 1..Len(users) : call.response.users[i] = Joined(users[i])

\* the rows of the store with the user, the workspace and the owner of rb
SameKey(store, rb) ==
    {x \in DOMAIN store : /\ x.user_id = rb.user_id
                          /\ x.workspace_id = rb.workspace_id
                          /\ x.workspace_group_id = rb.workspace_group_id}

\* C17: after a successful UpdateMemberRole, every role-binding of the user
\* owned by the group carries the new role_id and its role type; for every
\* (user, workspace, owner) the store holds as many role-bindings as
\* before; and every role-binding of another user or another owner is as it
\* was.
RoleUpdatePatchesInPlace ==
    Succeeded("UpdateMemberRole") =>
        LET user_id == call.input[1].user_id
            role_id == call.input[1].role_id
            rows == DOMAIN rbs \cup DOMAIN call.pre.rbs
        IN  /\ \A rb \in DOMAIN rbs :
                  (rb.user_id = user_id /\ rb.workspace_group_id = G) =>
                      /\ rb.role_id = role_id
                      /\ rb.role_type = RoleTypeOf(role_id)
            /\ \A rb \in rows :
                  NumRb(rbs, SameKey(rbs, rb)) = NumRb(call.pre.rbs, SameKey(call.pre.rbs, rb))
            /\ \A rb \in rows :
                  ~(rb.user_id = user_id /\ rb.workspace_group_id = G) =>
                      CopiesIn(rb, rbs) = CopiesIn(rb, call.pre.rbs)

\* the role of a member was changed who held a role-binding of the group
\* with the old role and a role-binding no group owns
RoleUpdatePatchesInPlace_witness ==
    /\ Succeeded("UpdateMemberRole")
    /\ \E rb \in DOMAIN call.pre.rbs :
          /\ rb.user_id \in Named
          /\ rb.workspace_group_id = G
          /\ rb.role_id # call.input[1].role_id
    /\ \E rb \in DOMAIN rbs :
          /\ rb.user_id \in Named
          /\ rb.workspace_group_id = NoGroup
          /\ rb.role_id # call.input[1].role_id

\* C18: after a successful UpdateMemberRole the users list has the length
\* and the order it had, the entry of the user carries the new role_id and
\* role type, every other entry is as it was, and the list is as it was
\* when the user is no member.
PatchSingleEntry ==
    Succeeded("UpdateMemberRole") =>
        LET user_id == call.input[1].user_id
            role_id == call.input[1].role_id
        IN  /\ Len(users) = Len(call.pre.users)
            /\ \A i \in 1..Len(users) :
                  users[i] = IF call.pre.users[i].user_id = user_id
                             THEN [call.pre.users[i] EXCEPT !.role_id = role_id,
                                                           !.role_type = RoleTypeOf(role_id)]
                             ELSE call.pre.users[i]
            /\ (user_id \notin MemberIds(call.pre.users) => users = call.pre.users)

\* the role of the second of two members was changed, to a role the first
\* member does not hold
PatchSingleEntry_witness ==
    /\ Succeeded("UpdateMemberRole")
    /\ Len(users) = 2
    /\ users[2].user_id = call.input[1].user_id
    /\ users[2] # call.pre.users[2]
    /\ users[1].role_id # users[2].role_id

\* C19: after a successful AddUsers on a group with workspaces, the only
\* role-bindings of a new user in a workspace of the group are those the
\* call created (owned by the group, with a role_id the request gave): the
\* ones held before are deleted and the created ones outlive the deletion;
\* every other role-binding, those of the new users in workspaces outside
\* the group included, is as it was.
ClearBeforeCreate ==
    (Succeeded("AddUsers") /\ group_ws # {}) =>
        /\ \A u \in Named, w \in group_ws :
              /\ NumRb(rbs, {rb \in DOMAIN rbs : rb.user_id = u /\ rb.workspace_id = w})
                     = IF w \in call.created THEN 1 ELSE 0
              /\ \A rb \in DOMAIN rbs :
                    (rb.user_id = u /\ rb.workspace_id = w) =>
                        /\ rb.workspace_group_id = G
                        /\ \E j \in 1..Len(call.input) :
                              call.input[j] = UserInfo(u, rb.role_id)
        /\ (Named # {} => call.created # {})
        /\ \A rb \in DOMAIN rbs \cup DOMAIN call.pre.rbs :
              ~(rb.user_id \in Named /\ rb.workspace_id \in group_ws) =>
                  CopiesIn(rb, rbs) = CopiesIn(rb, call.pre.rbs)

\* a new user held a role-binding in a workspace of the group: it was
\* deleted, and the call created its own in that workspace
ClearBeforeCreate_witness ==
    /\ Succeeded("AddUsers")
    /\ \E rb \in DOMAIN call.pre.rbs :
          /\ rb.user_id \in Named
          /\ rb.workspace_id \in group_ws
          /\ rb.workspace_id \in call.deleted \cap call.created
          /\ rb \notin DOMAIN rbs

Unchanged ==
    /\ users = call.pre.users
    /\ rbs = call.pre.rbs
    /\ user_count = call.pre.user_count

\* C20: an AddUsers on the existing group that names no member fails with
\* NotFound when the directory lacks a user it names, and otherwise with
\* InvalidParameter when a role_id it gives does not resolve to a
\* WORKSPACE_OWNER or WORKSPACE_MEMBER role; an AddUsers that fails with
\* either error leaves the role-binding store, the users list and every
\* user_count as they were.
AddValidationBeforeEffects ==
    Handled("AddUsers") =>
        LET missing == \E u \in Named : user_state[u] = "ABSENT"
            invalid == \E j \in 1..Len(call.input) :
                          RoleTypeOf(call.input[j].role_id) \notin
                              {"WORKSPACE_OWNER", "WORKSPACE_MEMBER"}
            fresh   == group_exists /\ Named \cap MemberIds(call.pre.users) = {}
        IN  /\ (fresh /\ missing) => (call.err = "NotFound" /\ call.reason = "user_id")
            /\ (fresh /\ ~missing /\ invalid) => call.err = "InvalidParameter"
            /\ call.err \in {"NotFound", "InvalidParameter"} => Unchanged

\* an AddUsers with a role_id of a domain role was rejected on a group with
\* a workspace in which the named user held a role-binding
AddValidationBeforeEffects_witness ==
    /\ Handled("AddUsers")
    /\ call.err = "InvalidParameter"
    /\ call.reason = "role_id is invalid"
    /\ \E rb \in DOMAIN rbs :
          /\ rb.user_id \in Named
          /\ rb.workspace_id \in group_ws

\* C21: a RemoveUsers without a workspace that has begun to recompute the
\* user_counts has, when it ends, attempted the recompute of every
\* workspace of the group, also when the recompute of one of them failed.
RecomputeAttemptedForAll ==
    \A p \in Requests :
        (/\ IsRemove(p)
         /\ At(p, "done")
         /\ Local(p).workspace_id = NoWorkspace
         /\ Local(p).attempted # {}) =>
            Local(p).attempted = group_ws

\* C22: in a RemoveUsers the role-bindings are deleted first, then the
\* users list is written to the group, and only then are user_counts
\* written: a request that has written a user_count has written the users
\* list before, and one that has written the users list has no role-binding
\* left to delete.
WriteOrder ==
    \A p \in Requests :
        IsRemove(p) =>
            /\ Local(p).written # {} =>
                  (At(p, "written") \/ (At(p, "done") /\ Local(p).err = "OK"))
            /\ At(p, "written") => RemoveTargets(p) = {}

\* the users list a run of the request without failure leaves
Uninterrupted(p) ==
    IF IsRemove(p)
    THEN FilterSeq(Local(p).old_users, Local(p).user_ids)
    ELSE Local(p).vo_users \o
             add_users_to_workspace_group(Local(p).input, <<>>, EmptyBag).list

\* C23: when an AddUsers or a RemoveUsers has failed while it deleted or
\* created role-bindings or recomputed user_counts, the same request
\* invoked again (and not hit by a failure itself) is accepted and
\* succeeds, and leaves the users list that the first invocation would have
\* left without the failure.
RetrySafe ==
    (Failed("a") /\ At("b", "done") /\ ~Failed("b")) =>
        /\ Local("b").err = "OK"
        /\ users = Uninterrupted("a")

\* a RemoveUsers failed after it had deleted role-bindings and begun the
\* recompute; invoked again it succeeded and removed the members
RetrySafe_witness ==
    /\ Failed("a")
    /\ IsRemove("a")
    /\ Local("a").attempted # {}
    /\ At("b", "done")
    /\ Local("b").err = "OK"
    /\ Len(users) < Len(Local("a").old_users)

\* C24: an AddUsers, successful or not, writes no user_count: every
\* workspace has the user_count it had before the call, also where the call
\* created or deleted role-bindings.
AddLeavesCounts ==
    Handled("AddUsers") =>
        /\ user_count = call.pre.user_count
        /\ call.written = {}

\* an AddUsers deleted and created role-bindings in a workspace whose
\* user_count no longer is the number of users bound in it
AddLeavesCounts_witness ==
    /\ Succeeded("AddUsers")
    /\ \E w \in call.created : user_count[w] # Cardinality(DistinctUsers(rbs, w))
    /\ call.deleted # {}

\* C25: when two AddUsers requests on the group that interleave at their
\* reads and writes of the stores have both ended, no user_id appears twice
\* in the users list, also when both add the same user.
UniqueUnderInterleaving ==
    (\A p \in Requests : At(p, "done")) =>
        Cardinality(MemberIds(users)) = Len(users)

\* C26: with the requests handled one at a time from the empty group,
\* every role-binding owned by the group is held by a user who has an
\* entry in the users list, and carries the role_id and the role type of
\* that entry.
BindingsAgreeWithMembers ==
    \A rb \in DOMAIN rbs :
        rb.workspace_group_id = G =>
            \E i \in 1..Len(users) :
                /\ users[i].user_id = rb.user_id
                /\ users[i].role_id = rb.role_id
                /\ users[i].role_type = rb.role_type

\* the role of one of two members was changed who held role-bindings of
\* the group in both workspaces
BindingsAgreeWithMembers_witness ==
    /\ Succeeded("UpdateMemberRole")
    /\ Len(users) = 2
    /\ \E i \in 1..2 : users[i].user_id \in Named /\ users[i] # call.pre.users[i]
    /\ \A w \in Workspaces :
          \E rb \in DOMAIN rbs :
             rb.user_id \in Named /\ rb.workspace_id = w /\ rb.workspace_group_id = G

RECURSIVE ApplyRollbacks(_, _)
\* the counts once the rollbacks are applied, the one registered last first
ApplyRollbacks(counts, rollbacks) ==
    IF rollbacks = <<>> THEN counts
    ELSE LET top == rollbacks[Len(rollbacks)]
         IN  ApplyRollbacks([counts EXCEPT ![top.workspace_id] = top.old_data.user_count],
                            SubSeq(rollbacks, 1, Len(rollbacks) - 1))

\* C27: update_workspace_by_vo registers, before it updates, a rollback
\* with the values the workspace has: at every step of a RemoveUsers the
\* registered rollbacks, applied in reverse order of registration, give
\* every user_count the value it had when the request began, and when the
\* request has failed and they have been applied (and before it is invoked
\* again) every user_count has that value.
RollbackRestores ==
    \A p \in Requests :
        IsRemove(p) =>
            /\ ~At(p, "done") =>
                  ApplyRollbacks(user_count, Local(p).rollbacks) = Local(p).pre_count
            /\ (Failed(p) /\ (p = "b" \/ At("b", "idle"))) =>
                  user_count = Local(p).pre_count

\* a RemoveUsers failed after it had written a user_count that differed
\* from the one before, and the rollback restored it
RollbackRestores_witness ==
    /\ IsRemove("a")
    /\ Failed("a")
    /\ Local("a").rollbacks = <<>>
    /\ \E w \in Local("a").written :
          user_count[w] # Cardinality(stat_role_bindings(rbs, w))

====
